---- MODULE Spec2Model ----
(***************************************************************************)
(* Model of gaievskyi/event-loop (src/src/index.ts).                       *)
(*                                                                         *)
(* The state machines of this module:                                      *)
(*   SpecHeap  a single BinaryHeap driven by push / shift / peek;          *)
(*   SpecRef   the BinaryHeap next to a textbook binary heap;              *)
(*   SpecPop   the keys 5, 3, 8, 1, 4 pushed in any order, then shifted;   *)
(*   Spec      an EventLoop: three BinaryHeaps, the paint gate, the timers *)
(*             started by queueMacroTask / queueMicroTask /                *)
(*             queueAnimationTask, and the coroutine run();                *)
(*   SpecLive  Spec with the fairness of the runtime, for termination;     *)
(*   SpecBatch the EventLoop as mockTasks and run() of the entry point     *)
(*             drive it: every task is queued before loop.run().           *)
(*                                                                         *)
(* run() is a coroutine of a single-threaded runtime: between two awaits   *)
(* its code runs without interleaving, so timer callbacks fire only while  *)
(* run() is suspended on a callback (or is not running); only the clock    *)
(* advances at any moment.                                                 *)
(*                                                                         *)
(* Arrays are 0-based in the source and sequences 1-based here: At(s, i)   *)
(* reads the element the source calls items[i]; all index arithmetic       *)
(* (parentOf, leftChild, rightChild) keeps the source's 0-based values.    *)
(***************************************************************************)
EXTENDS Integers, Sequences, FiniteSets

(***************************************************************************)
(* Bounds of the model.                                                    *)
(***************************************************************************)
\* keys (ms) pushed into the stand-alone heap are 1..MaxKey
MaxKey == 3
\* the stand-alone heap is constructed with a capacity in 1..MaxCapacity
MaxCapacity == 6
\* the EventLoop's queues are constructed with a capacity in 0..LoopCapacity
\* (16 in the source, scaled down so that a queue can fill up)
LoopCapacity == 1
\* number of queue*Task calls made on the EventLoop
MaxCalls == 2
\* number of tasks the producer of SpecBatch queues before it calls run()
MaxQuantity == 3
\* the clock stops advancing at MaxTime
MaxTime == 32

\* the paint gate: "60 times a second (every 16 ms)"
PaintInterval == 16

Keys == 1..MaxKey
Capacities == 1..MaxCapacity
\* delays (and therefore keys) passed to queue*Task
Delays == {0, 8}
\* amounts by which Date.now() is seen to advance between two steps
TickSteps == {8}

VARIABLES
    \* ---- the stand-alone BinaryHeap (SpecHeap) ----
    items,            \* BinaryHeap.items
    capacity,         \* BinaryHeap.capacity (in Spec: of each of the three queues)
    res,              \* the last heap operation, its outcome and the items before it
    held,             \* a push has succeeded on the stand-alone heap
    ref,              \* a textbook binary heap given the same pushes and shifts
    pushed,           \* keys the pop-ordering scenario has pushed, in order
    popped,           \* keys the shifts of the pop-ordering scenario returned
    \* ---- the EventLoop (Spec) ----
    macroTaskQueue,   \* EventLoop.macroTaskQueue.items
    microTaskQueue,   \* EventLoop.microTaskQueue.items
    animationQueue,   \* EventLoop.animationQueue.items
    lastPaintTime,    \* EventLoop.lastPaintTime
    now,              \* Date.now()
    timers,           \* setTimeout callbacks not yet fired
    jobs,             \* promise reactions not yet run (queueMicroTask's then)
    pc,               \* position of run()
    cur,              \* the task execute() has shifted and is running
    curQueue,         \* the queue execute() was called on
    susp,             \* the running callback is suspended on asynchronous work
    quantity,         \* number of queue*Task calls the producer makes
    calls,            \* number of queue*Task calls made so far
    resolved,         \* ids of the calls whose returned promise has resolved
    \* ---- history ----
    landed,           \* the tasks pushed into a queue: which queue, and what
                      \* run() was doing when the timer callback pushed them
    settled,          \* the callbacks that have completed, and how
    dropped,          \* ids of the tasks whose push threw in the timer callback
    order,            \* ids of the tasks run() executed, in execution order
    iterMacro,        \* macro tasks executed in the current outer iteration
    topHadMacro,      \* the macro queue had items at the top of this iteration
    microSeenEmpty,   \* the micro queue was seen empty since the last macro task
    inFlight,         \* the queue*Task calls whose task is not pushed yet
    paintedAt,        \* this.lastPaintTime as the last repaint() found it
    runError,         \* the message of the error a shift in run() threw, "" if none did
    gateDiff,         \* now - lastPaintTime as read by the last isPainting, or -1
    repaints          \* number of calls of repaint()

heapVars == <<items, capacity, res, held, ref, pushed, popped>>
loopVars == <<macroTaskQueue, microTaskQueue, animationQueue, lastPaintTime,
              now, timers, jobs, pc, cur, curQueue, susp, calls, resolved,
              quantity>>
runHist == <<landed, settled, dropped, order, iterMacro, topHadMacro, microSeenEmpty,
             gateDiff, repaints, paintedAt, runError>>
histVars == <<runHist, inFlight>>
vars == <<heapVars, loopVars, histVars>>

(***************************************************************************)
(* class Task                                                              *)
(***************************************************************************)
\* callback is the identity of the callback: the number of the queue*Task
\* call that passed it (0 for the tasks of the stand-alone heap).  What a
\* callback does (return, throw, suspend) is decided when it is called.
Task(callback, ms) == [callback |-> callback, ms |-> ms]

NoTask == Task(0, 0)

(***************************************************************************)
(* class BinaryHeap                                                        *)
(***************************************************************************)
At(s, i) == s[i + 1]

size(s) == Len(s)

hasItems(s) == size(s) > 0

parentOf(i) == (i - 1) \div 2

leftChild(i) == 2 * i + 1

rightChild(i) == 2 * i + 2

swap(s, i, j) == [s EXCEPT ![i + 1] = s[j + 1], ![j + 1] = s[i + 1]]

RECURSIVE heapifyUpFrom(_, _)
heapifyUpFrom(s, i) ==
    IF parentOf(i) >= 0 /\ At(s, parentOf(i)).ms > At(s, i).ms
    THEN heapifyUpFrom(swap(s, parentOf(i), i), parentOf(i))
    ELSE s

\* the item pushed is left at the end of the array
heapifyUpNone(s) == s

heapifyUp(s) == heapifyUpFrom(s, size(s) - 1)

smallerChild(s, i) ==
    IF rightChild(i) < size(s) /\ At(s, rightChild(i)).ms < At(s, leftChild(i)).ms
    THEN rightChild(i)
    ELSE leftChild(i)

RECURSIVE heapifyDownFrom(_, _)
heapifyDownFrom(s, i) ==
    IF leftChild(i) < size(s)
    THEN IF At(s, smallerChild(s, i)).ms > At(s, i).ms
         THEN s
         ELSE heapifyDownFrom(swap(s, smallerChild(s, i), i), smallerChild(s, i))
    ELSE s

heapifyDown(s) == heapifyDownFrom(s, 0)

\* push throws exactly when pushThrows; otherwise items becomes pushItems
pushThrows(s, cap) == size(s) > cap

pushItems(s, item) == heapifyUp(Append(s, item))

\* the emptiness check of shift left out
shiftThrowsNever(s) == FALSE

\* shift throws exactly when shiftThrows; otherwise it returns shiftItem
\* and items becomes shiftItems
shiftThrows(s) == ~hasItems(s)

shiftItem(s) == At(s, 0)

\* items[0] read in place of items.shift(): the item stays in the array
shiftItemsKeepsRoot(s) == heapifyDown(s)

shiftItems(s) == heapifyDown(Tail(s))

\* the message shift throws with, "" when it returns: the emptiness check,
\* then the check of the item Array.prototype.shift returned (undefined
\* exactly when the array was empty)
shiftError(s) ==
    IF shiftThrows(s) THEN "Heap is empty"
    ELSE IF Len(s) = 0 THEN "Something went wrong during the Heap shifting"
    ELSE ""

\* peek never throws: on an empty array items[0] is undefined
Undefined == Task(-1, 0)

peek(s) == IF Len(s) > 0 THEN At(s, 0) ELSE Undefined

(***************************************************************************)
(* SpecHeap: one BinaryHeap, any sequence of push, shift and peek.         *)
(***************************************************************************)
NoRes == [op |-> "none", error |-> "", item |-> NoTask, before |-> <<>>]

\* The textbook heap the stand-alone heap is compared with: its pop moves
\* the last element to the root, shrinks the array and sifts down.
stdShiftItems(s) ==
    IF Len(s) <= 1 THEN <<>>
    ELSE heapifyDown(<<s[Len(s)]>> \o SubSeq(s, 2, Len(s) - 1))

NoRef == [items |-> <<>>, item |-> NoTask]

\* the parts of the state SpecHeap's heap does not use
HeapIdle ==
    /\ items = <<>>
    /\ res = NoRes
    /\ held = FALSE
    /\ ref = NoRef
    /\ pushed = <<>>
    /\ popped = <<>>

LoopIdle ==
    /\ macroTaskQueue = <<>>
    /\ microTaskQueue = <<>>
    /\ animationQueue = <<>>
    /\ lastPaintTime = 0
    /\ now = 0
    /\ timers = {}
    /\ jobs = {}
    /\ pc = "idle"
    /\ cur = NoTask
    /\ curQueue = "none"
    /\ susp = FALSE
    /\ calls = 0
    /\ resolved = {}
    /\ landed = {}
    /\ settled = {}
    /\ dropped = {}
    /\ order = <<>>
    /\ iterMacro = 0
    /\ topHadMacro = FALSE
    /\ microSeenEmpty = TRUE
    /\ gateDiff = -1
    /\ repaints = 0
    /\ runError = ""
    /\ paintedAt = 0
    /\ inFlight = {}

InitHeap ==
    /\ HeapIdle
    /\ capacity \in Capacities
    /\ quantity = 0
    /\ LoopIdle

\* heap.push(new Task(callback, k)), whatever the textbook heap does
PushItem(k) ==
    /\ IF pushThrows(items, capacity)
       THEN /\ res' = [op |-> "push", error |-> "Heap exceeded its capacity",
                       item |-> Task(0, k), before |-> items]
            /\ UNCHANGED <<items, held>>
       ELSE /\ res' = [op |-> "push", error |-> "",
                       item |-> Task(0, k), before |-> items]
            /\ items' = pushItems(items, Task(0, k))
            /\ held' = TRUE
    /\ UNCHANGED <<capacity, loopVars, histVars>>

\* heap.shift(), whatever the textbook heap does
ShiftItem ==
    /\ IF shiftError(items) # ""
       THEN /\ res' = [op |-> "shift", error |-> shiftError(items),
                       item |-> NoTask, before |-> items]
            /\ UNCHANGED items
       ELSE /\ res' = [op |-> "shift", error |-> "",
                       item |-> shiftItem(items), before |-> items]
            /\ items' = shiftItems(items)
    /\ UNCHANGED <<capacity, held, loopVars, histVars>>

Push(k) == PushItem(k) /\ UNCHANGED <<ref, pushed, popped>>

Shift == ShiftItem /\ UNCHANGED <<ref, pushed, popped>>

Peek ==
    /\ res' = [op |-> "peek", error |-> "", item |-> peek(items), before |-> items]
    /\ UNCHANGED <<items, capacity, held, ref, pushed, popped, loopVars, histVars>>

NextHeap ==
    \/ \E k \in Keys : Push(k)
    \/ Shift
    \/ Peek

SpecHeap == InitHeap /\ [][NextHeap]_vars

(***************************************************************************)
(* SpecRef: the BinaryHeap and a textbook heap side by side, given the     *)
(* same pushes and shifts.                                                 *)
(***************************************************************************)
PushBoth(k) ==
    /\ PushItem(k)
    /\ ref' = IF pushThrows(items, capacity) THEN ref
              ELSE [items |-> pushItems(ref.items, Task(0, k)), item |-> NoTask]
    /\ UNCHANGED <<pushed, popped>>

ShiftBoth ==
    /\ ShiftItem
    /\ ref' = IF shiftError(items) # "" THEN ref
              ELSE [items |-> stdShiftItems(ref.items), item |-> ref.items[1]]
    /\ UNCHANGED <<pushed, popped>>

NextRef ==
    \/ \E k \in Keys : PushBoth(k)
    \/ ShiftBoth

SpecRef == InitHeap /\ [][NextRef]_vars

(***************************************************************************)
(* SpecPop: the pop-ordering scenario. The keys 5, 3, 8, 1, 4 are pushed   *)
(* into an empty heap that has room for them, in any order, and the heap   *)
(* is then shifted until it is empty.                                      *)
(***************************************************************************)
ScenarioKeys == {5, 3, 8, 1, 4}

Range(f) == {f[i] : i \in DOMAIN f}

InitPop ==
    /\ HeapIdle
    /\ capacity \in {c \in Capacities : c >= Cardinality(ScenarioKeys)}
    /\ quantity = 0
    /\ LoopIdle

PushKey(k) ==
    /\ k \notin Range(pushed)
    /\ PushItem(k)
    /\ pushed' = Append(pushed, k)
    /\ UNCHANGED <<ref, popped>>

ShiftKey ==
    /\ Range(pushed) = ScenarioKeys
    /\ hasItems(items)
    /\ ShiftItem
    /\ popped' = Append(popped, res'.item.ms)
    /\ UNCHANGED <<ref, pushed>>

NextPop ==
    \/ \E k \in ScenarioKeys : PushKey(k)
    \/ ShiftKey

SpecPop == InitPop /\ [][NextPop]_vars

(***************************************************************************)
(* class EventLoop                                                         *)
(***************************************************************************)
\* a paint interval of half the length
isPaintingHalf == 2 * (now - lastPaintTime) >= PaintInterval

isPainting == now - lastPaintTime >= PaintInterval

\* the macro queue taken to hold items whatever it holds
hasMacroTaskAlways == TRUE

hasMacroTask == hasItems(macroTaskQueue)

hasMicroTask == hasItems(microTaskQueue)

hasAnimationTask == hasItems(animationQueue)

\* the animation queue left out of the loop condition
hasTasksNoAnimation == hasMacroTask \/ hasMicroTask

\* the loop condition also waiting for the timers that have not fired
hasTasksOrTimers == hasMacroTask \/ hasMicroTask \/ hasAnimationTask \/ timers # {}

hasTasks == hasMacroTask \/ hasMicroTask \/ hasAnimationTask

QueueNames == {"macro", "micro", "animation"}

QueueOf(q) ==
    CASE q = "macro" -> macroTaskQueue
      [] q = "micro" -> microTaskQueue
      [] q = "animation" -> animationQueue

\* the three queues with queue q replaced by s
SetQueue(q, s) ==
    /\ macroTaskQueue' = IF q = "macro" THEN s ELSE macroTaskQueue
    /\ microTaskQueue' = IF q = "micro" THEN s ELSE microTaskQueue
    /\ animationQueue' = IF q = "animation" THEN s ELSE animationQueue

queues == <<macroTaskQueue, microTaskQueue, animationQueue>>

\* Code other than run() is on the stack or may be entered: the producer
\* before, during a suspension of, or after run(), or the running callback.
UserCode == pc \in {"idle", "exec", "done", "failed"}

\* The call stack is empty and no promise reaction is pending, so the
\* runtime may run a timer callback: run() has not been called, has
\* settled, or is awaiting a callback that is suspended.
StackEmpty ==
    /\ jobs = {}
    /\ \/ pc \in {"idle", "done", "failed"}
       \/ pc = "exec" /\ susp

\* Date.now() advances
Tick(d) ==
    /\ now + d <= MaxTime
    /\ now' = now + d
    /\ UNCHANGED <<heapVars, quantity, queues, lastPaintTime, timers, jobs,
                   pc, cur, curQueue, susp, calls, resolved, histVars>>

\* the delay left out: setTimeout(() => { ... }) fires as soon as it can
SetTimeoutNoDelay(q, task) == [task |-> task, queue |-> q, due |-> now]

\* setTimeout(() => { queue.push(task); resolve() }, ms)
SetTimeout(q, task) == [task |-> task, queue |-> q, due |-> now + task.ms]

\* the record of a queue*Task call: the queue of the method called, the
\* delay passed, and the time the delay counts from: the time of the call,
\* moved on to the time the timer is started when queueMicroTask's reaction
\* starts it later
Call(callback, q, ms) == [callback |-> callback, queue |-> q, from |-> now, ms |-> ms]

QueueMacroTask(callback, ms) ==
    /\ UserCode
    /\ calls < quantity
    /\ calls' = calls + 1
    /\ inFlight' = inFlight \cup {Call(callback, "macro", ms)}
    /\ timers' = timers \cup {SetTimeout("macro", Task(callback, ms))}
    /\ UNCHANGED <<heapVars, quantity, queues, lastPaintTime, now, jobs, pc,
                   cur, curQueue, susp, resolved, runHist>>

\* Promise.resolve().then(() => new Promise(... setTimeout ...)): the timer
\* is started by a promise reaction, after the calling code has yielded
QueueMicroTask(callback, ms) ==
    /\ UserCode
    /\ calls < quantity
    /\ calls' = calls + 1
    /\ inFlight' = inFlight \cup {Call(callback, "micro", ms)}
    /\ jobs' = jobs \cup {Task(callback, ms)}
    /\ UNCHANGED <<heapVars, quantity, queues, lastPaintTime, now, timers,
                   pc, cur, curQueue, susp, resolved, runHist>>

MicroTaskThen(task) ==
    /\ UserCode
    /\ task \in jobs
    /\ jobs' = jobs \ {task}
    /\ timers' = timers \cup {SetTimeout("micro", task)}
    /\ inFlight' = {IF c.callback = task.callback THEN [c EXCEPT !.from = now] ELSE c :
                        c \in inFlight}
    /\ UNCHANGED <<heapVars, quantity, queues, lastPaintTime, now, pc, cur,
                   curQueue, susp, calls, resolved, runHist>>

QueueAnimationTask(callback, ms) ==
    /\ UserCode
    /\ calls < quantity
    /\ calls' = calls + 1
    /\ inFlight' = inFlight \cup {Call(callback, "animation", ms)}
    /\ timers' = timers \cup {SetTimeout("animation", Task(callback, ms))}
    /\ UNCHANGED <<heapVars, quantity, queues, lastPaintTime, now, jobs, pc,
                   cur, curQueue, susp, resolved, runHist>>

\* what run() is doing: executing a task of a queue, or its position
Doing == IF pc = "exec" THEN curQueue ELSE pc

\* resolve() called although the push threw (as from a finally block)
TimerFiresResolves(t) ==
    /\ StackEmpty
    /\ t \in timers
    /\ t.due <= now
    /\ timers' = timers \ {t}
    /\ inFlight' = {c \in inFlight : c.callback # t.task.callback}
    /\ IF pushThrows(QueueOf(t.queue), capacity)
       THEN /\ dropped' = dropped \cup {t.task.callback}
            /\ resolved' = resolved \cup {t.task.callback}
            /\ UNCHANGED <<queues, landed>>
       ELSE /\ SetQueue(t.queue, pushItems(QueueOf(t.queue), t.task))
            /\ resolved' = resolved \cup {t.task.callback}
            /\ landed' = landed \cup {[callback |-> t.task.callback,
                                        queue |-> t.queue,
                                        when |-> Doing]}
            /\ UNCHANGED dropped
    /\ UNCHANGED <<heapVars, runError, quantity, paintedAt, lastPaintTime,
                   now, jobs, pc, cur, curQueue, susp, calls, settled, order,
                   iterMacro, topHadMacro, microSeenEmpty, gateDiff,
                   repaints>>

\* the timer callback: push (which may throw), then resolve
TimerFires(t) ==
    /\ StackEmpty
    /\ t \in timers
    /\ t.due <= now
    /\ timers' = timers \ {t}
    /\ inFlight' = {c \in inFlight : c.callback # t.task.callback}
    /\ IF pushThrows(QueueOf(t.queue), capacity)
       THEN /\ dropped' = dropped \cup {t.task.callback}
            /\ UNCHANGED <<queues, resolved, landed>>
       ELSE /\ SetQueue(t.queue, pushItems(QueueOf(t.queue), t.task))
            /\ resolved' = resolved \cup {t.task.callback}
            /\ landed' = landed \cup {[callback |-> t.task.callback,
                                        queue |-> t.queue,
                                        when |-> Doing]}
            /\ UNCHANGED dropped
    /\ UNCHANGED <<heapVars, runError, quantity, paintedAt, lastPaintTime,
                   now, jobs, pc, cur, curQueue, susp, calls, settled, order,
                   iterMacro, topHadMacro, microSeenEmpty, gateDiff,
                   repaints>>

\* execute(queue) up to the call of the callback; an error thrown by
\* queue.shift() rejects execute() and run()
execute(q) ==
    IF shiftError(QueueOf(q)) # ""
    THEN /\ runError' = shiftError(QueueOf(q))
         /\ pc' = "failed"
         /\ UNCHANGED <<queues, cur, curQueue, order>>
    ELSE /\ cur' = shiftItem(QueueOf(q))
         /\ SetQueue(q, shiftItems(QueueOf(q)))
         /\ curQueue' = q
         /\ order' = Append(order, shiftItem(QueueOf(q)).callback)
         /\ pc' = "exec"
         /\ UNCHANGED runError

\* `while (this.hasMacroTask)` in place of `if (this.hasMacroTask)`
AfterWhileMacro(q) ==
    IF q = "animation" THEN "anim" ELSE IF q = "macro" THEN "macro" ELSE "micro"

\* `if (this.hasMicroTask)` in place of `while (this.hasMicroTask)`
AfterIfMicro(q) == IF q = "animation" THEN "anim" ELSE IF q = "macro" THEN "micro" ELSE "gate"

\* the gate checked again after each animation task
AfterAnimationGate(q) == IF q = "animation" THEN "gate" ELSE "micro"

\* where run() continues once `await execute(queue)` has completed
After(q) == IF q = "animation" THEN "anim" ELSE "micro"

\* loop.run() is called
RunCalled ==
    /\ pc = "idle"
    /\ pc' = "top"
    /\ UNCHANGED <<heapVars, quantity, queues, lastPaintTime, now, timers,
                   jobs, cur, curQueue, susp, calls, resolved, histVars>>

\* the macro phase left out of the iteration
WhileHasTasksSkipsMacro ==
    /\ pc = "top"
    /\ pc' = IF hasTasks THEN "micro" ELSE "done"
    /\ iterMacro' = 0
    /\ topHadMacro' = hasMacroTask
    /\ gateDiff' = -1
    /\ UNCHANGED <<heapVars, runError, quantity, paintedAt, inFlight, queues,
                   lastPaintTime, now, timers, jobs, cur, curQueue, susp,
                   calls, resolved, landed, settled, dropped, order,
                   microSeenEmpty, repaints>>

\* while (this.hasTasks)
WhileHasTasks ==
    /\ pc = "top"
    /\ pc' = IF hasTasks THEN "macro" ELSE "done"
    /\ iterMacro' = 0
    /\ topHadMacro' = hasMacroTask
    /\ gateDiff' = -1
    /\ UNCHANGED <<heapVars, runError, quantity, paintedAt, inFlight, queues,
                   lastPaintTime, now, timers, jobs, cur, curQueue, susp,
                   calls, resolved, landed, settled, dropped, order,
                   microSeenEmpty, repaints>>

\* if (this.hasMacroTask) await execute(this.macroTaskQueue)
IfHasMacroTask ==
    /\ pc = "macro"
    /\ IF hasMacroTask
       THEN /\ execute("macro")
            /\ iterMacro' = iterMacro + 1
            /\ microSeenEmpty' = FALSE
       ELSE /\ pc' = "micro"
            /\ UNCHANGED <<queues, cur, curQueue, order, iterMacro, microSeenEmpty,
                           runError>>
    /\ UNCHANGED <<heapVars, quantity, paintedAt, inFlight, lastPaintTime,
                   now, timers, jobs, susp, calls, resolved, landed, settled,
                   dropped, topHadMacro, gateDiff, repaints>>

\* while (this.hasMicroTask) await execute(this.microTaskQueue)
WhileHasMicroTask ==
    /\ pc = "micro"
    /\ IF hasMicroTask
       THEN /\ execute("micro")
            /\ UNCHANGED microSeenEmpty
       ELSE /\ pc' = "gate"
            /\ microSeenEmpty' = TRUE
            /\ UNCHANGED <<queues, cur, curQueue, order, runError>>
    /\ UNCHANGED <<heapVars, quantity, paintedAt, inFlight, lastPaintTime,
                   now, timers, jobs, susp, calls, resolved, landed, settled,
                   dropped, iterMacro, topHadMacro, gateDiff, repaints>>

\* the gate check also stamping lastPaintTime
IfIsPaintingStamps ==
    /\ pc = "gate"
    /\ pc' = IF isPainting THEN "anim" ELSE "top"
    /\ gateDiff' = now - lastPaintTime
    /\ lastPaintTime' = now
    /\ UNCHANGED <<heapVars, runError, quantity, paintedAt, inFlight, queues,
                   now, timers, jobs, cur, curQueue, susp, calls, resolved,
                   landed, settled, dropped, order, iterMacro, topHadMacro,
                   microSeenEmpty, repaints>>

\* if (this.isPainting)
IfIsPainting ==
    /\ pc = "gate"
    /\ pc' = IF isPainting THEN "anim" ELSE "top"
    /\ gateDiff' = now - lastPaintTime
    /\ UNCHANGED <<heapVars, runError, quantity, paintedAt, inFlight, queues,
                   lastPaintTime, now, timers, jobs, cur, curQueue, susp,
                   calls, resolved, landed, settled, dropped, order,
                   iterMacro, topHadMacro, microSeenEmpty, repaints>>

\* repaint() moved into the body of the while loop
WhileHasAnimationTaskRepaints ==
    /\ pc = "anim"
    /\ IF hasAnimationTask
       THEN /\ execute("animation")
            /\ repaints' = repaints + 1
            /\ paintedAt' = lastPaintTime
            /\ UNCHANGED lastPaintTime
       ELSE /\ lastPaintTime' = now
            /\ pc' = "top"
            /\ UNCHANGED <<queues, cur, curQueue, order, repaints, paintedAt, runError>>
    /\ UNCHANGED <<heapVars, quantity, inFlight, now, timers, jobs, susp,
                   calls, resolved, landed, settled, dropped, iterMacro,
                   topHadMacro, microSeenEmpty, gateDiff>>

\* while (this.hasAnimationTask) await execute(this.animationQueue)
\* this.lastPaintTime = Date.now(); repaint()
WhileHasAnimationTask ==
    /\ pc = "anim"
    /\ IF hasAnimationTask
       THEN /\ execute("animation")
            /\ UNCHANGED <<lastPaintTime, repaints, paintedAt>>
       ELSE /\ lastPaintTime' = now
            /\ repaints' = repaints + 1
            /\ paintedAt' = lastPaintTime'
            /\ pc' = "top"
            /\ UNCHANGED <<queues, cur, curQueue, order, runError>>
    /\ UNCHANGED <<heapVars, quantity, inFlight, now, timers, jobs, susp,
                   calls, resolved, landed, settled, dropped, iterMacro,
                   topHadMacro, microSeenEmpty, gateDiff>>

\* the callback returns without suspending; `await callback()` completes
CallbackReturns ==
    /\ pc = "exec" /\ ~susp /\ jobs = {}
    /\ pc' = After(curQueue)
    /\ cur' = NoTask
    /\ curQueue' = "none"
    /\ settled' = settled \cup {[callback |-> cur.callback, how |-> "returned"]}
    /\ UNCHANGED <<heapVars, runError, quantity, paintedAt, inFlight, queues,
                   lastPaintTime, now, timers, jobs, susp, calls, resolved,
                   landed, dropped, order, iterMacro, topHadMacro,
                   microSeenEmpty, gateDiff, repaints>>

\* the failure caught and dropped: run() goes on with the next task
CallbackThrowsCaught ==
    /\ pc = "exec" /\ ~susp /\ jobs = {}
    /\ pc' = After(curQueue)
    /\ cur' = NoTask
    /\ curQueue' = "none"
    /\ settled' = settled \cup {[callback |-> cur.callback, how |-> "failed"]}
    /\ UNCHANGED <<heapVars, runError, quantity, paintedAt, inFlight, queues,
                   lastPaintTime, now, timers, jobs, susp, calls, resolved,
                   landed, dropped, order, iterMacro, topHadMacro,
                   microSeenEmpty, gateDiff, repaints>>

\* the callback throws; execute() and run() reject
CallbackThrows ==
    /\ pc = "exec" /\ ~susp /\ jobs = {}
    /\ pc' = "failed"
    /\ settled' = settled \cup {[callback |-> cur.callback, how |-> "failed"]}
    /\ UNCHANGED <<heapVars, runError, quantity, paintedAt, inFlight, queues,
                   lastPaintTime, now, timers, jobs, cur, curQueue, susp,
                   calls, resolved, landed, dropped, order, iterMacro,
                   topHadMacro, microSeenEmpty, gateDiff, repaints>>

\* `callback()` not awaited: run() goes on while the callback is suspended
CallbackNotAwaited ==
    /\ pc = "exec" /\ ~susp /\ jobs = {}
    /\ pc' = After(curQueue)
    /\ UNCHANGED <<heapVars, quantity, queues, lastPaintTime, now, timers,
                   jobs, cur, curQueue, susp, calls, resolved, histVars>>

\* the callback returns a pending promise; run() is suspended on it
CallbackSuspends ==
    /\ pc = "exec" /\ ~susp /\ jobs = {}
    /\ susp' = TRUE
    /\ UNCHANGED <<heapVars, quantity, queues, lastPaintTime, now, timers,
                   jobs, pc, cur, curQueue, calls, resolved, histVars>>

\* the callback's promise resolves; run() resumes
CallbackResolves ==
    /\ pc = "exec" /\ susp /\ jobs = {}
    /\ pc' = After(curQueue)
    /\ cur' = NoTask
    /\ curQueue' = "none"
    /\ susp' = FALSE
    /\ settled' = settled \cup {[callback |-> cur.callback, how |-> "returned"]}
    /\ UNCHANGED <<heapVars, runError, quantity, paintedAt, inFlight, queues,
                   lastPaintTime, now, timers, jobs, calls, resolved, landed,
                   dropped, order, iterMacro, topHadMacro, microSeenEmpty,
                   gateDiff, repaints>>

\* the callback's promise rejects; execute() and run() reject
CallbackRejects ==
    /\ pc = "exec" /\ susp /\ jobs = {}
    /\ pc' = "failed"
    /\ susp' = FALSE
    /\ settled' = settled \cup {[callback |-> cur.callback, how |-> "failed"]}
    /\ UNCHANGED <<heapVars, runError, quantity, paintedAt, inFlight, queues,
                   lastPaintTime, now, timers, jobs, cur, curQueue, calls,
                   resolved, landed, dropped, order, iterMacro, topHadMacro,
                   microSeenEmpty, gateDiff, repaints>>

Init ==
    /\ HeapIdle
    /\ capacity \in 0..LoopCapacity
    /\ quantity = MaxCalls
    /\ LoopIdle

Next ==
    \/ \E d \in TickSteps : Tick(d)
    \/ \E ms \in Delays : QueueMacroTask(calls + 1, ms)
    \/ \E ms \in Delays : QueueMicroTask(calls + 1, ms)
    \/ \E ms \in Delays : QueueAnimationTask(calls + 1, ms)
    \/ \E task \in jobs : MicroTaskThen(task)
    \/ \E t \in timers : TimerFires(t)
    \/ RunCalled
    \/ WhileHasTasks
    \/ IfHasMacroTask
    \/ WhileHasMicroTask
    \/ IfIsPainting
    \/ WhileHasAnimationTask
    \/ CallbackReturns
    \/ CallbackThrows
    \/ CallbackSuspends
    \/ CallbackResolves
    \/ CallbackRejects

Spec == Init /\ [][Next]_vars

(***************************************************************************)
(* SpecBatch: the EventLoop as the program's entry point drives it.        *)
(* mockTasks queues its tasks one after the other, awaiting the promise of *)
(* each call before it makes the next, and loop.run() is called once       *)
(* mockTasks has returned: every task has landed before run() starts, and  *)
(* nothing is queued while it runs.                                        *)
(***************************************************************************)
\* the producer is not awaiting the promise of a call
ProducerReady == pc = "idle" /\ jobs = {} /\ Cardinality(resolved) = calls

MockMacroTask(ms) == ProducerReady /\ QueueMacroTask(calls + 1, ms)

MockMicroTask(ms) == ProducerReady /\ QueueMicroTask(calls + 1, ms)

MockAnimationTask(ms) == ProducerReady /\ QueueAnimationTask(calls + 1, ms)

\* await mockTasks(loop, options); await loop.run()
MockTasksReturned == ProducerReady /\ calls = quantity /\ RunCalled

InitBatch ==
    /\ HeapIdle
    /\ capacity \in 0..LoopCapacity
    /\ quantity \in 1..MaxQuantity
    /\ LoopIdle

NextBatch ==
    \/ \E d \in TickSteps : Tick(d)
    \/ \E ms \in Delays : MockMacroTask(ms)
    \/ \E ms \in Delays : MockMicroTask(ms)
    \/ \E ms \in Delays : MockAnimationTask(ms)
    \/ \E task \in jobs : MicroTaskThen(task)
    \/ \E t \in timers : TimerFires(t)
    \/ MockTasksReturned
    \/ WhileHasTasks
    \/ IfHasMacroTask
    \/ WhileHasMicroTask
    \/ IfIsPainting
    \/ WhileHasAnimationTask
    \/ CallbackReturns
    \/ CallbackThrows
    \/ CallbackSuspends
    \/ CallbackResolves
    \/ CallbackRejects

SpecBatch == InitBatch /\ [][NextBatch]_vars

(***************************************************************************)
(* Claims about the BinaryHeap (checked under SpecHeap).                   *)
(***************************************************************************)
MinKey(s) == CHOOSE m \in {s[i].ms : i \in 1..Len(s)} :
                 \A i \in 1..Len(s) : m <= s[i].ms

\* C1: every successful shift returns an item whose key is the minimum of
\* the keys held immediately before that shift.
C1_ShiftReturnsMinimum ==
    (res.op = "shift" /\ res.error = "") => res.item.ms = MinKey(res.before)

\* C2: min-heap invariant: for every index i > 0 of the backing array,
\* items[parentOf(i)].ms <= items[i].ms.
IsMinHeap(s) == \A i \in 1..(size(s) - 1) : At(s, parentOf(i)).ms <= At(s, i).ms

C2_HeapInvariant == IsMinHeap(items)

\* C3: the size never exceeds the capacity: a push attempted when the heap
\* already holds capacity items throws and does not insert the item.
C3_SizeWithinCapacity ==
    /\ size(items) <= capacity
    /\ (res.op = "push" /\ Len(res.before) >= capacity) =>
           (res.error = "Heap exceeded its capacity" /\ items = res.before)

\* C11: shift on a heap that holds no items throws "Heap is empty" and
\* leaves the heap empty; shift throws nothing on a heap that holds items.
C11_ShiftOnEmptyThrows ==
    res.op = "shift" =>
        IF Len(res.before) = 0
        THEN res.error = "Heap is empty" /\ items = <<>> /\ res.item = NoTask
        ELSE res.error = ""

\* shift has thrown on a heap that held items before and was drained
C11_Witness ==
    /\ res.op = "shift"
    /\ res.error = "Heap is empty"
    /\ held
    /\ items = <<>>

\* C12: peek on a heap that holds items returns an item of minimum key,
\* the item the next shift returns, and leaves the items as they were; peek
\* on a heap that holds no items throws "Heap is empty" and returns no value.
C12_PeekContract ==
    res.op = "peek" =>
        IF Len(res.before) = 0
        THEN res.error = "Heap is empty" /\ res.item = NoTask
        ELSE /\ res.error = ""
             /\ res.item.ms = MinKey(res.before)
             /\ res.item = shiftItem(res.before)
             /\ items = res.before

(***************************************************************************)
(* Claim about the pop-ordering scenario (checked under SpecPop).          *)
(***************************************************************************)
SortedKeys == <<1, 3, 4, 5, 8>>

\* C18: after the keys 5, 3, 8, 1, 4 were pushed into an empty heap, in
\* whatever order, the shifts return 1, 3, 4, 5, 8 in that order and the
\* fifth shift leaves the heap empty.
C18_PopOrder ==
    /\ popped = SubSeq(SortedKeys, 1, Len(popped))
    /\ Range(pushed) = ScenarioKeys =>
           /\ Len(items) + Len(popped) = Len(SortedKeys)
           /\ res.error = ""

\* the keys were pushed in the listed order and five shifts returned them
\* sorted
C18_Witness ==
    /\ pushed = <<5, 3, 8, 1, 4>>
    /\ popped = SortedKeys
    /\ items = <<>>
    /\ res.op = "shift"

(***************************************************************************)
(* Claims about the BinaryHeap next to a textbook heap (checked under      *)
(* SpecRef).                                                               *)
(***************************************************************************)
KeyCount(s, k) == Cardinality({i \in 1..Len(s) : s[i].ms = k})

SameKeys(s, t) == Len(s) = Len(t) /\ \A k \in Keys : KeyCount(s, k) = KeyCount(t, k)

\* C19: the array shift leaves from a valid heap holds the same keys as the
\* array the textbook pop leaves from it and is a min-heap as that one is,
\* and the heap and the textbook heap, given the same pushes and shifts,
\* return the same key at every shift.
C19_ShiftMatchesStandardPop ==
    (res.op = "shift" /\ res.error = "") =>
        /\ IsMinHeap(res.before) =>
               /\ SameKeys(items, stdShiftItems(res.before))
               /\ IsMinHeap(stdShiftItems(res.before))
               /\ IsMinHeap(items)
        /\ res.item.ms = ref.item.ms

(***************************************************************************)
(* SpecLive: Spec with the fairness the runtime gives run(): the clock     *)
(* advances, pending promise reactions run, run() takes its next step      *)
(* whenever it is not suspended, and a callback that was called settles.   *)
(* Calls of queue*Task and timer callbacks are not forced.                 *)
(***************************************************************************)
RunStep ==
    \/ WhileHasTasks
    \/ IfHasMacroTask
    \/ WhileHasMicroTask
    \/ IfIsPainting
    \/ WhileHasAnimationTask

CallbackStep ==
    \/ CallbackReturns
    \/ CallbackThrows
    \/ CallbackSuspends
    \/ CallbackResolves
    \/ CallbackRejects

Fairness ==
    /\ WF_vars(\E d \in TickSteps : Tick(d))
    /\ WF_vars(\E task \in jobs : MicroTaskThen(task))
    /\ WF_vars(RunStep)
    /\ WF_vars(CallbackStep)

\* the queues of SpecLive are constructed with the largest capacity
InitLive == Init /\ capacity = LoopCapacity

SpecLive == InitLive /\ [][Next]_vars /\ Fairness

(***************************************************************************)
(* Claims about the EventLoop.  The formulas read the queues directly.     *)
(***************************************************************************)
Executed == {order[i] : i \in 1..Len(order)}

Settled == {r.callback : r \in settled}

Failed == {r.callback : r \in settled \cap [callback : 1..calls, how : {"failed"}]}

Ids(s) == {s[i].callback : i \in 1..Len(s)}

AllEmpty == Len(macroTaskQueue) = 0 /\ Len(microTaskQueue) = 0 /\ Len(animationQueue) = 0

\* C4: in every outer iteration of run() at most one macro task is shifted
\* and executed, exactly one when the macro queue had items at the top of
\* the iteration; and run() is never at the macro phase without having seen
\* the micro queue empty since the last macro task it executed.
C4_OneMacroTaskPerIteration ==
    /\ iterMacro <= 1
    /\ pc \in {"micro", "gate", "anim"} => iterMacro = (IF topHadMacro THEN 1 ELSE 0)
    /\ (pc = "exec" /\ curQueue = "macro") => (topHadMacro /\ iterMacro = 1)
    /\ pc = "macro" => (microSeenEmpty /\ iterMacro = 0)

\* one macro task was executed in this iteration, another is still queued,
\* and run() has moved on to the micro phase
C4_Witness ==
    /\ pc = "micro"
    /\ iterMacro = 1
    /\ Len(macroTaskQueue) > 0

\* C5: the gate check is reached only with the micro queue empty and every
\* micro task that has landed executed, those that landed while another
\* micro task was executing included.
C5_GateAfterMicroDrained ==
    pc \in {"gate", "anim"} =>
        /\ pc = "gate" => Len(microTaskQueue) = 0
        /\ \A l \in landed :
               (l.queue = "micro" /\ l.when \in {"idle", "macro", "micro"}) =>
                   l.callback \in Executed

\* run() is at the gate check, and a micro task that landed while another
\* micro task was executing has been executed
C5_Witness ==
    /\ pc = "gate"
    /\ \E l \in landed :
           /\ l.queue = "micro"
           /\ l.when = "micro"
           /\ l.callback \in Executed

\* C6: an animation task is shifted and executed only after a gate check
\* that read now - lastPaintTime >= 16; a gate check that reads less leaves
\* the animation queue as it is and goes back to the top of the loop; one
\* that reads 16 or more starts the drain, which ends with the queue empty.
C6_AnimationOnlyWhenGateOpen ==
    /\ [](pc = "anim" \/ (pc \in {"exec", "failed"} /\ curQueue = "animation")
              => gateDiff >= PaintInterval)
    /\ [][Len(animationQueue') < Len(animationQueue)
              => now - lastPaintTime >= PaintInterval]_vars
    /\ [][(pc = "gate" /\ pc' # "gate") =>
              /\ animationQueue' = animationQueue
              /\ pc' = (IF now - lastPaintTime >= PaintInterval THEN "anim" ELSE "top")]_vars
    /\ [][(pc = "anim" /\ pc' = "top") => Len(animationQueue) = 0]_vars

\* an animation task is executing after a gate check that read exactly 16
C6_Witness ==
    /\ pc = "exec"
    /\ curQueue = "animation"
    /\ gateDiff = PaintInterval

\* C7: once run() is at the top of its loop with every task of a finite
\* workload landed (no timer pending, no call left to make) and the clock
\* able to advance past the paint interval, run() eventually returns, or
\* rejects because a task failed; it returns exactly at a top-of-iteration
\* check that finds the three queues empty, and rejects only on a failure.
RunReady ==
    /\ pc = "top"
    /\ timers = {}
    /\ jobs = {}
    /\ calls = MaxCalls
    /\ lastPaintTime + PaintInterval <= MaxTime

C7_RunTerminates ==
    /\ RunReady ~> (pc = "done" \/ pc = "failed")
    /\ [][(pc = "top" /\ pc' # "top") => (pc' = "done" <=> AllEmpty)]_vars
    /\ [][(pc # "done" /\ pc' = "done") => pc = "top"]_vars
    /\ [](pc = "failed" => Failed # {})

\* run() has returned after executing every task of a workload of animation
\* tasks that had all landed before run() was called
C7_Witness ==
    /\ pc = "done"
    /\ calls = MaxCalls
    /\ timers = {}
    /\ landed # {}
    /\ Cardinality(landed) = MaxCalls
    /\ \A l \in landed :
           l.when = "idle" /\ l.queue = "animation" /\ l.callback \in Executed
    /\ repaints > 0

\* C8: at most one callback is started and not settled; while one is,
\* run() shifts no task and starts no callback.
C8_SerialExecution ==
    /\ [](Cardinality(Executed \ Settled) <= 1)
    /\ [][Executed \ Settled # {} =>
              /\ order' = order
              /\ Len(macroTaskQueue') >= Len(macroTaskQueue)
              /\ Len(microTaskQueue') >= Len(microTaskQueue)
              /\ Len(animationQueue') >= Len(animationQueue)]_vars

\* a callback is suspended and a task that landed during the suspension
\* waits in its queue
C8_Witness ==
    /\ pc = "exec"
    /\ susp
    /\ \E l \in landed :
           /\ l.when = curQueue
           /\ l.callback \in Ids(macroTaskQueue) \cup Ids(microTaskQueue)
                                \cup Ids(animationQueue)

\* C9: once a callback has failed run() has rejected, and from then on no
\* task is shifted or executed, lastPaintTime is not written, repaint() is
\* not called, and the tasks in the queues stay there.
C9_FailurePropagates ==
    /\ [](Failed # {} => pc = "failed")
    /\ [][Failed # {} =>
              /\ pc' = "failed"
              /\ order' = order
              /\ lastPaintTime' = lastPaintTime
              /\ repaints' = repaints
              /\ Ids(macroTaskQueue) \subseteq Ids(macroTaskQueue')
              /\ Ids(microTaskQueue) \subseteq Ids(microTaskQueue')
              /\ Ids(animationQueue) \subseteq Ids(animationQueue')]_vars

\* a callback failed after a suspension while another task is queued
C9_Witness ==
    /\ pc = "failed"
    /\ ~AllEmpty
    /\ \E l \in landed : l.when = curQueue

\* C10: run() returns at a top-of-iteration check that finds the queues
\* empty whether or not timers are pending, and once it has returned no task
\* is executed any more: a task whose timer fires afterwards stays queued.
C10_RunDoesNotWaitForTimers ==
    /\ [][(pc = "top" /\ pc' # "top" /\ AllEmpty) => pc' = "done"]_vars
    /\ [][pc = "done" => (pc' = "done" /\ order' = order)]_vars
    /\ [](pc = "done" =>
              \A l \in landed : l.when = "done" =>
                  /\ l.callback \notin Executed
                  /\ l.callback \in Ids(QueueOf(l.queue)))

\* run() has returned and a task whose timer fired afterwards is queued
C10_Witness ==
    /\ pc = "done"
    /\ \E l \in landed :
           /\ l.when = "done"
           /\ l.callback \in Ids(QueueOf(l.queue))
           /\ l.callback \notin Executed

\* C13: a task passed to queueMacroTask, queueMicroTask or
\* queueAnimationTask with delay ms is in no queue, and the promise the call
\* returned is not resolved, while the call is in flight; the step that
\* inserts it happens ms or more after the call (after the time the delay
\* counts from, which is the time of the call or later) and inserts it into
\* the queue of the method called; and a promise resolves only in the step
\* that inserts its task.
C13_NotInserted ==
    \A c \in inFlight :
        /\ c.callback \notin resolved
        /\ \A q \in QueueNames : c.callback \notin Ids(QueueOf(q))

C13_Inserts ==
    /\ \A q \in QueueNames :
           \A i \in Ids(QueueOf(q))' \ Ids(QueueOf(q)) :
               \E c \in inFlight :
                   /\ c.callback = i
                   /\ c.queue = q
                   /\ c.from + c.ms <= now
                   /\ \E k \in 1..Len(QueueOf(q)') :
                          QueueOf(q)'[k] = Task(i, c.ms)
    /\ \A i \in resolved' \ resolved :
           \E c \in inFlight :
               /\ c.callback = i
               /\ i \in Ids(QueueOf(c.queue))' \ Ids(QueueOf(c.queue))
    /\ \A c \in inFlight : \A d \in inFlight' :
           c.callback = d.callback => (c.queue = d.queue /\ c.ms = d.ms /\ c.from <= d.from)

C13_DelayedInsert ==
    [][C13_NotInserted /\ C13_NotInserted' /\ C13_Inserts]_vars

\* a task queued with delay 8 has been inserted and its promise resolved
\* while another call is still in flight
C13_Witness ==
    /\ inFlight # {}
    /\ \E q \in QueueNames :
           \E k \in 1..Len(QueueOf(q)) :
               /\ QueueOf(q)[k].ms = 8
               /\ QueueOf(q)[k].callback \in resolved

\* C14: a gate check that finds the gate open sends run() to the animation
\* phase, which it leaves only by the repaint step (or by a failure); the
\* repaint step happens with the animation queue empty, after a gate check
\* of this iteration that read 16 ms or more, sets lastPaintTime to the
\* current time before repaint() is called, calls repaint() once and ends
\* the iteration; a gate check that finds the gate closed ends the
\* iteration without a repaint.
C14_Step ==
    /\ repaints' # repaints =>
           /\ repaints' = repaints + 1
           /\ pc = "anim" /\ pc' = "top"
           /\ Len(animationQueue) = 0 /\ Len(animationQueue') = 0
           /\ gateDiff >= PaintInterval
           /\ lastPaintTime' = now
           /\ paintedAt' = now
    /\ pc = "gate" =>
           /\ repaints' = repaints
           /\ pc' \in {"gate", "anim", "top"}
           /\ pc' = "anim" => now - lastPaintTime >= PaintInterval
           /\ pc' = "top" => now - lastPaintTime < PaintInterval
    /\ pc = "anim" =>
           /\ pc' = "anim" => repaints' = repaints
           /\ pc' = "exec" => (Len(animationQueue) > 0 /\ curQueue' = "animation")
           /\ pc' \notin {"anim", "exec"} =>
                  (pc' = "top" /\ repaints' = repaints + 1)
    /\ (pc = "exec" /\ curQueue = "animation") => pc' \in {"exec", "anim", "failed"}
    /\ (pc' = "anim" /\ pc # "anim") =>
           \/ pc = "gate"
           \/ pc = "exec" /\ curQueue = "animation"

C14_RepaintAfterDrain == [][C14_Step]_vars

\* run() has executed an animation task and then repainted, and has also
\* repainted in an iteration in which the animation queue was empty
C14_Witness ==
    /\ repaints = 2
    /\ pc = "top"
    /\ lastPaintTime = now
    /\ Cardinality({l \in landed : l.queue = "animation"}) = 1
    /\ \E l \in landed : l.queue = "animation" /\ l.callback \in Executed

\* C15: lastPaintTime never decreases and never exceeds Date.now(); it
\* keeps the value it was constructed with until the first repaint, and it
\* changes only in the step that ends an open-gate animation phase, which
\* sets it to the current time: calls of queue*Task, timer callbacks and
\* the macro and micro phases leave it unchanged.
C15_Step ==
    /\ lastPaintTime' >= lastPaintTime
    /\ lastPaintTime <= now /\ lastPaintTime' <= now'
    /\ repaints = 0 => lastPaintTime = 0
    /\ lastPaintTime' # lastPaintTime =>
           /\ pc = "anim" /\ pc' = "top"
           /\ gateDiff >= PaintInterval
           /\ Len(animationQueue) = 0
           /\ lastPaintTime' = now
           /\ UNCHANGED <<queues, timers, jobs, calls, order>>

C15_LastPaintTimeMonotonic == [][C15_Step]_vars

\* lastPaintTime has been advanced twice, to 16 and then to 32
C15_Witness == lastPaintTime = 2 * PaintInterval /\ repaints = 2

\* C17: run() never shifts an empty queue: no shift made by execute() has
\* thrown "Heap is empty" (or anything else), and the task run() is
\* executing is a task a timer callback pushed into the queue it was
\* shifted from and that was not executed before.
C17_NoShiftOnEmptyQueue ==
    /\ runError = ""
    /\ pc = "exec" =>
           /\ cur # NoTask
           /\ [callback |-> cur.callback, queue |-> curQueue] \in
                  {[callback |-> l.callback, queue |-> l.queue] : l \in landed}
           /\ order[Len(order)] = cur.callback
           /\ \A k \in 1..(Len(order) - 1) : order[k] # cur.callback

\* run() is executing, as its second task, a task that a timer callback
\* pushed while the first task was suspended
C17_Witness ==
    /\ pc = "exec"
    /\ Len(order) = 2
    /\ \E l \in landed :
           /\ l.callback = cur.callback
           /\ l.when \in QueueNames

\* C20: no task is executed twice; only tasks that a timer callback pushed
\* into a queue are executed; each queue holds exactly the tasks pushed
\* into it and not yet shifted by run(), each once; and when run() has
\* returned, every task pushed before its last check of hasTasks has been
\* executed, once.
C20_NoLossNoDuplication ==
    /\ \A j, k \in 1..Len(order) : order[j] = order[k] => j = k
    /\ Executed \subseteq {l.callback : l \in landed}
    /\ \A l1, l2 \in landed : l1.callback = l2.callback => l1 = l2
    /\ \A q \in QueueNames :
           /\ Ids(QueueOf(q)) = {l.callback : l \in {r \in landed : r.queue = q}} \ Executed
           /\ Len(QueueOf(q)) = Cardinality(Ids(QueueOf(q)))
    /\ pc = "done" =>
           {l.callback : l \in {r \in landed : r.when # "done"}} = Executed

\* run() has returned after executing two tasks, one of them pushed by a
\* timer callback while the other was suspended
C20_Witness ==
    /\ pc = "done"
    /\ Len(order) = 2
    /\ \E l \in landed : l.when \in QueueNames

(***************************************************************************)
(* Claims about the phase order (checked under SpecBatch, in which every   *)
(* task has landed before run() makes its first check).                    *)
(***************************************************************************)
\* task a was executed, and before task b was (if b was executed at all)
Before(a, b) ==
    \E j \in 1..Len(order) :
        /\ order[j] = a
        /\ \A k \in 1..j : order[k] # b

LandedIn(q) == {l.callback : l \in {r \in landed : r.queue = q}}

\* C16 as stated: whenever a macro task T1 and a micro task T2 have both
\* landed before the phase check and T2 has been executed, T1 was executed
\* before T2.
C16_EveryMacroBeforeMicro ==
    \A t1 \in LandedIn("macro") : \A t2 \in LandedIn("micro") :
        t2 \in Executed => Before(t1, t2)

\* C16, amended: in an iteration whose macro queue had items at the top,
\* one macro task (the one shift returned) is executed before any micro
\* task of that iteration; so when macro tasks and a micro task T2 have
\* landed before the first phase check and T2 has been executed, a macro
\* task was executed before T2, which is T1 when T1 is the only macro task.
C16_OneMacroBeforeMicro ==
    /\ (pc = "exec" /\ curQueue = "micro" /\ topHadMacro) => iterMacro = 1
    /\ \A t2 \in LandedIn("micro") :
           (t2 \in Executed /\ LandedIn("macro") # {}) =>
               \E t1 \in LandedIn("macro") : Before(t1, t2)
    /\ \A t1 \in LandedIn("macro") : \A t2 \in LandedIn("micro") :
           (t2 \in Executed /\ LandedIn("macro") = {t1}) => Before(t1, t2)

\* the micro task was queued first, the macro task second with a larger
\* key, and run() has executed the macro task and then the micro task
C16_Witness ==
    /\ LandedIn("micro") = {1}
    /\ LandedIn("macro") = {2}
    /\ order = <<2, 1>>
    /\ cur = Task(1, 0)
    /\ now >= 8

(***************************************************************************)
(* Claim about a push rejected for capacity (checked under SpecBatch,      *)
(* whose producer awaits the promise of each call before the next call).   *)
(***************************************************************************)
\* the calls whose push has thrown are in no queue and their promises are
\* not resolved; the producer has made no call after such a call and has
\* not called run()
C21_Stalled ==
    /\ \A i \in dropped :
           /\ i \notin resolved
           /\ i \notin {l.callback : l \in landed}
           /\ \A q \in QueueNames : i \notin Ids(QueueOf(q))
    /\ dropped # {} =>
           /\ dropped = {calls}
           /\ pc = "idle"
           /\ ~ProducerReady
           /\ order = <<>>

\* C21: when the push of a timer callback throws for capacity (the queue
\* already holds more items than its capacity), that step inserts nothing,
\* leaves the three queues as they were and resolves no promise; from then
\* on the promise of that call stays unresolved and its task is in no
\* queue, and the producer, which awaits that promise, makes no further
\* call and never calls run().
C21_Step ==
    /\ C21_Stalled /\ C21_Stalled'
    /\ \A i \in dropped' \ dropped :
           /\ UNCHANGED <<queues, resolved, landed, calls, pc>>
           /\ \E c \in inFlight :
                  /\ c.callback = i
                  /\ Len(QueueOf(c.queue)) > capacity
                  /\ c.from + c.ms <= now
    /\ dropped # {} => UNCHANGED <<queues, resolved, landed, calls, pc, dropped>>

C21_RejectedPushStallsProducer == [][C21_Step]_vars

\* the push of the second of three calls has thrown, and the clock has
\* reached its last value with the producer still waiting for its promise
C21_Witness ==
    /\ dropped = {2}
    /\ calls = 2
    /\ quantity = 3
    /\ resolved = {1}
    /\ now = MaxTime
    /\ pc = "idle"

(***************************************************************************)
(* Claim about the animation drain (checked under Spec).                   *)
(***************************************************************************)
\* run() is in the loop `while (this.hasAnimationTask)`: at its test, or
\* executing an animation task
InDrain == pc = "anim" \/ (pc = "exec" /\ curQueue = "animation")

\* C22: while run() is in the animation drain, which it enters only after
\* a gate check that read 16 ms or more, the gate is not read again, no
\* macro or micro task is shifted (those that land stay queued), and every
\* task run() starts is shifted from the animation queue; at the test of
\* the drain, run() executes an animation task whenever the queue holds
\* one, whatever the clock shows, so tasks that land during the drain are
\* executed in it; the drain ends only with the animation queue empty (or
\* by a failing callback).
C22_Step ==
    InDrain =>
        /\ gateDiff >= PaintInterval
        /\ gateDiff' = gateDiff
        /\ Ids(macroTaskQueue) \subseteq Ids(macroTaskQueue')
        /\ Ids(microTaskQueue) \subseteq Ids(microTaskQueue')
        /\ Ids(animationQueue') \ Ids(animationQueue) # {} =>
               (pc = "exec" /\ susp /\ pc' = "exec")
        /\ order' # order =>
               /\ pc = "anim" /\ pc' = "exec" /\ curQueue' = "animation"
               /\ order' = Append(order, cur'.callback)
               /\ cur'.callback \in Ids(animationQueue)
               /\ cur'.callback \notin Ids(animationQueue')
        /\ (pc = "anim" /\ Len(animationQueue) > 0 /\ pc' # "anim") =>
               (pc' = "exec" /\ order' # order)
        /\ ~InDrain' =>
               \/ pc' = "failed"
               \/ pc = "anim" /\ pc' = "top" /\ Len(animationQueue) = 0

C22_DrainNotInterrupted == [][C22_Step]_vars

\* an animation task landed while the first animation task was suspended,
\* and run() is executing it in the same drain (no repaint yet), 16 ms or
\* more after the gate check that opened the drain
C22_Witness ==
    /\ pc = "exec" /\ curQueue = "animation"
    /\ Len(order) = 2
    /\ repaints = 0
    /\ \E l \in landed : l.callback = cur.callback /\ l.when = "animation"
    /\ now - lastPaintTime >= gateDiff + PaintInterval

====
